---- MODULE Spec2Model ----
(***************************************************************************)
(* A model of parser.py: the table driven regex lexer, the whitespace      *)
(* token filter, the parser cursor and the precedence climbing parser.     *)
(*                                                                         *)
(* Source text is a sequence of one-character strings; offsets are 0-based *)
(* as in Python.  Truth values of objects follow the protocol the file is  *)
(* written for (__nonzero__ of ParserCursor, Python 2): a ParserCursor is  *)
(* true exactly when its lexer is, None and () are false, every other      *)
(* object is true.  An exception is modelled by its class name in a fault  *)
(* field; "none" means no exception.                                       *)
(***************************************************************************)
EXTENDS Integers, Sequences, FiniteSets, TLC

VARIABLES
    source,   \* the text given to Language.parse / RegexLexer.source
    pc,       \* where Language.parse is: "parse", "stmts", "expr", "done", "raised"
    exprs,    \* parse_stmts: the list exprs
    parser,   \* parse_stmts: the local parser (a ParserCursor)
    stack,    \* the activations of parse_expr, innermost last
    fault,    \* the class of the exception that ended the parse, or "none"
    result,   \* what Language.parse returned
    position, \* SpecPos: a Position over source
    cursor,   \* SpecCursor: the ParserCursor c under observation
    seen      \* SpecCursor: what c.pos() and c.current_token() returned at first

vars == <<source, pc, exprs, parser, stack, fault, result, position, cursor, seen>>

----------------------------------------------------------------------------
(* Bounds of the model *)

\* longest text of SpecPos
MaxPosLen == 4

----------------------------------------------------------------------------
(* Python values *)

None == [type |-> "None"]

EmptyTuple == [type |-> "tuple"]

\* source[i] with Python's 0-based index
CharAt(s, i) == s[i + 1]

\* the element of a set of one element: The({e(x) : x \in {v}}) is e of the
\* value v, computed once (x = v; return e(x))
The(S) == CHOOSE x \in S : TRUE

\* source[i:j]
Slice(s, i, j) == SubSeq(s, i + 1, j)

\* all sequences over S of length 0..n
RECURSIVE SeqsUpTo(_, _)
SeqsUpTo(S, n) ==
    IF n = 0 THEN {<<>>}
    ELSE LET shorter == SeqsUpTo(S, n - 1)
         IN  shorter \cup {Append(s, c) : s \in {t \in shorter : Len(t) = n - 1}, c \in S}

----------------------------------------------------------------------------
(* Position *)

Position(off, line_off, line, col) ==
    [off |-> off, line_off |-> line_off, line |-> line, col |-> col]

\* The end of the match of newlines = r'\r|\n|\r\n' at offset i of a text
\* that ends at endpos, or -1.  The alternatives are tried in order.
NewlinesMatchEnd(s, i, endpos) ==
    IF i < endpos /\ CharAt(s, i) = "\r" THEN i + 1
    ELSE IF i < endpos /\ CharAt(s, i) = "\n" THEN i + 1
    ELSE IF i + 1 < endpos /\ CharAt(s, i) = "\r" /\ CharAt(s, i + 1) = "\n" THEN i + 2
    ELSE -1

\* for match in self.newlines.finditer(source, self.off, offset), from
\* offset i on: line += 1; line_off = match.end().  e is the end of the
\* match at i.
RECURSIVE FindNewlines(_, _, _, _)
FoundNewline(s, i, endpos, acc, e) ==
    IF e = -1
    THEN FindNewlines(s, i + 1, endpos, acc)
    ELSE FindNewlines(s, e, endpos, [line |-> acc.line + 1, line_off |-> e])

FindNewlines(s, i, endpos, acc) ==
    IF i >= endpos THEN acc
    ELSE FoundNewline(s, i, endpos, acc, NewlinesMatchEnd(s, i, endpos))

\* col = (offset-line_off)+1; return Position(offset, line_off, line, col)
NewPosition(offset, r) ==
    Position(offset, r.line_off, r.line, (offset - r.line_off) + 1)

count_lines(self, s, offset) ==
    The({NewPosition(offset, r) :
         r \in {FindNewlines(s, self.off, offset,
                              [line |-> self.line, line_off |-> self.line_off])}})

\* Language.parse: Position(off=0, line_off=0, line=1, col=1)
StartPosition == Position(0, 0, 1, 1)

----------------------------------------------------------------------------
(* Tokens, parse rules and expression nodes *)

Token(name, text, pos) ==
    [type |-> "token", name |-> name, text |-> text, position |-> pos]

\* Everything = namedtuple('Everything','precedence captured_by')(0, ...)
Everything == [kind |-> "Everything", precedence |-> 0]

BlockRule(p, op, end_char) ==
    [kind |-> "BlockRule", precedence |-> p, op |-> op, end_char |-> end_char]

PrefixRule(p, op) == [kind |-> "PrefixRule", precedence |-> p, op |-> op]

InfixRule(p, op) == [kind |-> "InfixRule", precedence |-> p, op |-> op]

RInfixRule(p, op) == [kind |-> "RInfixRule", precedence |-> p, op |-> op]

PostfixBlockRule(p, op, end_char) ==
    [kind |-> "PostfixBlockRule", precedence |-> p, op |-> op, end_char |-> end_char]

PostfixRule(p, op) == [kind |-> "PostfixRule", precedence |-> p, op |-> op]

TokenRule(op, p) == [kind |-> "TokenRule", op |-> op, precedence |-> p]

TerminatorRule(op, p) == [kind |-> "TerminatorRule", op |-> op, precedence |-> p]

Block(op, item, close) ==
    [type |-> "block", op |-> op, item |-> item, close |-> close]

Prefix(op, right) == [type |-> "prefix", op |-> op, right |-> right]

Infix(op, left, right) ==
    [type |-> "infix", op |-> op, left |-> left, right |-> right]

PostfixBlock(op, left, right, close) ==
    [type |-> "postfixblock", op |-> op, left |-> left, right |-> right, close |-> close]

Postfix(op, left) == [type |-> "postfix", op |-> op, left |-> left]

\* bool(v) of a value that is not a ParserCursor: None and () are false,
\* namedtuples with fields and plain objects are true
Bool(v) == v.type \notin {"None", "tuple"}

----------------------------------------------------------------------------
(* Language: the rule table *)

NewLanguage ==
    [literal_rule |-> TokenRule(<<"l","i","t","e","r","a","l">>, 0),
     suffix       |-> <<>>,
     prefix       |-> <<>>,
     literals     |-> <<>>,
     operators    |-> {},
     whitespace   |-> <<>>,
     terminators  |-> {}]

\* d[key] = value of a dict kept as a function
DictSet(d, key, value) == (key :> value) @@ d

def_terminator(l, name, rx) ==
    [l EXCEPT !.terminators = @ \cup {rx},
              !.prefix = DictSet(@, name, TerminatorRule(name, -1))]

def_whitespace(l, name, rx) == [l EXCEPT !.whitespace = Append(@, rx)]

def_literal(l, name, rx) == [l EXCEPT !.literals = Append(@, name)]

def_block(l, p, start, end) ==
    [l EXCEPT !.prefix = DictSet(@, start, BlockRule(p, start, end)),
              !.operators = @ \cup {start, end}]

def_postfix_block(l, p, start, end) ==
    [l EXCEPT !.suffix = DictSet(@, start, PostfixBlockRule(p, start, end)),
              !.operators = @ \cup {start, end}]

def_postfix(l, p, op) ==
    [l EXCEPT !.suffix = DictSet(@, op, PostfixRule(p, op)),
              !.operators = @ \cup {op}]

def_prefix(l, p, op) ==
    [l EXCEPT !.prefix = DictSet(@, op, PrefixRule(p, op)),
              !.operators = @ \cup {op}]

def_infix(l, p, op) ==
    [l EXCEPT !.suffix = DictSet(@, op, InfixRule(p, op)),
              !.operators = @ \cup {op}]

def_rinfix(l, p, op) ==
    [l EXCEPT !.suffix = DictSet(@, op, RInfixRule(p, op)),
              !.operators = @ \cup {op}]

\* one call of a def_ method of Language.bootstrap
Call(l, c) ==
    CASE c[1] = "def_terminator"    -> def_terminator(l, c[2], c[3])
      [] c[1] = "def_whitespace"    -> def_whitespace(l, c[2], c[3])
      [] c[1] = "def_literal"       -> def_literal(l, c[2], c[3])
      [] c[1] = "def_block"         -> def_block(l, c[2], c[3], c[4])
      [] c[1] = "def_postfix_block" -> def_postfix_block(l, c[2], c[3], c[4])
      [] c[1] = "def_rinfix"        -> def_rinfix(l, c[2], c[3])
      [] c[1] = "def_prefix"        -> def_prefix(l, c[2], c[3])
      [] c[1] = "def_infix"         -> def_infix(l, c[2], c[3])

RECURSIVE CallAll(_, _)
CallAll(l, calls) ==
    IF calls = <<>> THEN l ELSE CallAll(Call(l, Head(calls)), Tail(calls))

\* the calls of Language.bootstrap, in its order
BootstrapCalls ==
    << <<"def_terminator", <<"\n">>, "\n">>,
       <<"def_terminator", <<";">>, ";">>,
       <<"def_whitespace", "space", "\\s+">>,
       <<"def_literal", "number", "\\d[\\d_]*">>,
       <<"def_literal", "identifier", "\\w+">>,
       <<"def_literal", "true", "true\\b">>,
       <<"def_literal", "false", "false\\b">>,
       <<"def_literal", "null", "null\\b">>,
       <<"def_block", 900, <<"(">>, <<")">> >>,
       <<"def_block", 900, <<"{">>, <<"}">> >>,
       <<"def_block", 900, <<"[">>, <<"]">> >>,
       <<"def_postfix_block", 800, <<"(">>, <<")">> >>,
       <<"def_postfix_block", 800, <<"{">>, <<"}">> >>,
       <<"def_postfix_block", 800, <<"[">>, <<"]">> >>,
       <<"def_rinfix", 700, <<"*","*">> >>,
       <<"def_prefix", 600, <<"+">> >>,
       <<"def_prefix", 600, <<"-">> >>,
       <<"def_prefix", 600, <<"~">> >>,
       <<"def_prefix", 600, <<"!">> >>,
       <<"def_infix", 500, <<"*">> >>,
       <<"def_infix", 500, <<"/">> >>,
       <<"def_infix", 500, <<"/","/">> >>,
       <<"def_infix", 500, <<"%">> >>,
       <<"def_infix", 400, <<"-">> >>,
       <<"def_infix", 400, <<"+">> >>,
       <<"def_infix", 300, <<"<","<">> >>,
       <<"def_infix", 300, <<">",">">> >>,
       <<"def_infix", 220, <<"&">> >>,
       <<"def_infix", 210, <<"^">> >>,
       <<"def_infix", 200, <<"|">> >>,
       \* for c in "in,not in,is,is,<,<=,>,>=,<>,!=,==".split(',')
       <<"def_infix", 130, <<"i","n">> >>,
       <<"def_infix", 130, <<"n","o","t"," ","i","n">> >>,
       <<"def_infix", 130, <<"i","s">> >>,
       <<"def_infix", 130, <<"i","s">> >>,
       <<"def_infix", 130, <<"<">> >>,
       <<"def_infix", 130, <<"<","=">> >>,
       <<"def_infix", 130, <<">">> >>,
       <<"def_infix", 130, <<">","=">> >>,
       <<"def_infix", 130, <<"<",">">> >>,
       <<"def_infix", 130, <<"!","=">> >>,
       <<"def_infix", 130, <<"=","=">> >>,
       <<"def_infix", 120, <<"n","o","t">> >>,
       <<"def_infix", 110, <<"a","n","d">> >>,
       <<"def_infix", 100, <<"o","r">> >>,
       <<"def_rinfix", 0, <<"=">> >> >>

bootstrap(l) == CallAll(l, BootstrapCalls)

\* language = Language(); language.bootstrap()
language == bootstrap(NewLanguage)

----------------------------------------------------------------------------
(* Language.rx and Language.match: the composed pattern *)

\* \s, \d and \w over the characters the texts of the model are made of
SpaceChars == {" ", "\n", "\r", "\t"}

DigitChars == {"0", "1", "2", "3", "4", "5", "6", "7", "8", "9"}

WordChars ==
    DigitChars \cup {"_", "a", "b", "c", "d", "e", "f", "g", "h", "i", "j", "k",
                     "l", "m", "n", "o", "p", "q", "r", "s", "t", "u", "v", "w",
                     "x", "y", "z"}

\* the end of the longest run of characters of class C from offset i
RECURSIVE RunEnd(_, _, _)
RunEnd(s, i, C) ==
    IF i < Len(s) /\ CharAt(s, i) \in C THEN RunEnd(s, i + 1, C) ELSE i

StartsWith(s, off, text) ==
    /\ off + Len(text) <= Len(s)
    /\ \A k \in 1 .. Len(text) : s[off + k] = text[k]

\* re.escape(o).replace(' ','\s+'): the escaped blank becomes a backslash
\* followed by s+, so an operator with a blank needs a backslash in the text
RECURSIVE OperatorPattern(_)
OperatorPattern(o) ==
    IF o = <<>> THEN <<>>
    ELSE IF Head(o) = " " THEN <<"\\", "s">> \o OperatorPattern(Tail(o))
    ELSE <<Head(o)>> \o OperatorPattern(Tail(o))

\* ops = sorted(self.operators, key=len, reverse=True) joined by |: the first
\* alternative that matches is the longest operator that matches at off
LongestEnd(off, hits) ==
    IF hits = {} THEN -1
    ELSE off + Len(OperatorPattern(CHOOSE h \in hits : \A g \in hits : Len(g) <= Len(h)))

OperatorMatchEnd(l, s, off) ==
    LongestEnd(off, {o \in l.operators : StartsWith(s, off, OperatorPattern(o))})

\* The named group that matches at off and where its match ends, in the
\* order of rx: terminator, whitespace, operator, then the literals in the
\* order of their definition (true, false and null come after identifier,
\* which matches wherever they do).  ws, op and id are the ends of the
\* matches of whitespace, operator and identifier.
FirstGroup(l, s, off, ws, op, id) ==
    IF off >= Len(s) THEN [name |-> "", end |-> -1]
    ELSE IF CharAt(s, off) \in l.terminators
         THEN [name |-> "terminator", end |-> off + 1]
    ELSE IF ws > off THEN [name |-> "whitespace", end |-> ws]
    ELSE IF op # -1 THEN [name |-> "operator", end |-> op]
    ELSE IF CharAt(s, off) \in DigitChars
         THEN [name |-> "number",
               end |-> RunEnd(s, off + 1, DigitChars \cup {"_"})]
    ELSE IF id > off THEN [name |-> "identifier", end |-> id]
    ELSE [name |-> "", end |-> -1]

GroupMatch(l, s, off) ==
    FirstGroup(l, s, off, RunEnd(s, off, SpaceChars), OperatorMatchEnd(l, s, off),
               RunEnd(s, off, WordChars))

\* Language.match from the match m of the pattern at position.off
Matched(s, pos0, m) ==
    IF m.end = -1
    THEN [token |-> Token("error", <<"u","n","k","n","o","w","n">>, pos0),
          next_pos |-> pos0]
    ELSE [token |-> Token(m.name, Slice(s, pos0.off, m.end),
                          count_lines(pos0, s, pos0.off)),
          next_pos |-> count_lines(count_lines(pos0, s, pos0.off), s, m.end)]

match(l, s, pos0) ==
    The({Matched(s, pos0, m) : m \in {GroupMatch(l, s, pos0.off)}})

get_suffix_rule(l, token) ==
    IF token.text \in DOMAIN l.suffix THEN l.suffix[token.text] ELSE None

\* a KeyError when an operator or terminator token has no prefix rule
get_prefix_rule(l, token) ==
    IF token.name \in {"operator", "terminator"}
    THEN IF token.text \in DOMAIN l.prefix
         THEN [fault |-> "none", ret |-> l.prefix[token.text]]
         ELSE [fault |-> "KeyError", ret |-> None]
    ELSE [fault |-> "none", ret |-> l.literal_rule]

----------------------------------------------------------------------------
(* RegexLexer, TokenFilter and ParserCursor *)

\* A call returns [fault, ret, self]: the exception it raised or "none", the
\* value it returned, and the receiver as the call left it.
Returned(v, self) == [fault |-> "none", ret |-> v, self |-> self]

Raised(e, self) == [fault |-> e, ret |-> None, self |-> self]

RegexLexer(pos) == [type |-> "RegexLexer", position |-> pos]

TokenFilter(lexer) == [type |-> "TokenFilter", lexer |-> lexer]

ParserCursor(lexer) == [type |-> "ParserCursor", lexer |-> lexer]

\* _current and _next are computed once from source and position, which
\* never change: the memo is the value of the function
RegexLexer_current(s, self) == match(language, s, self.position).token

\* RegexLexer.current from the pair m that self.rx returned: the _next it
\* sets
NextLexer(s, m) ==
    IF Bool(m.token) /\ m.next_pos.off < Len(s)
    THEN RegexLexer(m.next_pos)
    ELSE EmptyTuple

RegexLexer_next(s, self) ==
    The({NextLexer(s, m) : m \in {match(language, s, self.position)}})

\* token_filter("whitespace")
FilterTypes == {"whitespace"}

\* TokenFilter.current assigns self.lexer while it skips; current is
\* self.lexer.current()
RECURSIVE TokenFilter_current(_, _)
FilterToken(s, self, current) ==
    IF current.name \in FilterTypes
    THEN The({TokenFilter_current(s, TokenFilter(lexer)) :
              lexer \in {RegexLexer_next(s, self.lexer)}})
    ELSE Returned(current, self)

TokenFilter_current(s, self) ==
    IF ~Bool(self.lexer) THEN Returned(None, self)
    ELSE The({FilterToken(s, self, current) :
              current \in {RegexLexer_current(s, self.lexer)}})

\* TokenFilter.next from lexer = self.lexer.next()
FilterNext(self, lexer) ==
    IF Bool(lexer) THEN Returned(TokenFilter(lexer), self)
    ELSE Returned(None, self)

TokenFilter_next(s, self) ==
    IF self.lexer.type = "tuple" THEN Raised("AttributeError", self)
    ELSE The({FilterNext(self, lexer) : lexer \in {RegexLexer_next(s, self.lexer)}})

TokenFilter_pos(self) ==
    IF self.lexer.type = "tuple" THEN Raised("AttributeError", self)
    ELSE Returned(self.lexer.position, self)

\* ParserCursor.__nonzero__
nonzero(self) == Bool(self.lexer)

\* r is what the call on self.lexer gave; the cursor holds the filter as
\* the call left it
OfFilter(r) == Returned(r.ret, ParserCursor(r.self))

current_token(s, self) ==
    IF self.lexer.type = "None" THEN Raised("AttributeError", self)
    ELSE The({OfFilter(r) : r \in {TokenFilter_current(s, self.lexer)}})

pos(self) ==
    IF Bool(self.lexer)
    THEN [TokenFilter_pos(self.lexer) EXCEPT !.self = self]
    ELSE Returned(None, self)

\* return ParserCursor(self.lang, lexer)
NewCursor(self, r) ==
    IF r.fault # "none" THEN Raised(r.fault, self)
    ELSE Returned(ParserCursor(r.ret), self)

next(s, self) ==
    IF self.lexer.type = "None" THEN Raised("AttributeError", self)
    ELSE The({NewCursor(self, r) : r \in {TokenFilter_next(s, self.lexer)}})

\* return self.current_token(), self.next(): ret is the pair.  c and n are
\* what the two calls gave.
Popped(c, n) ==
    IF c.fault # "none" THEN Raised(c.fault, c.self)
    ELSE IF n.fault # "none" THEN Raised(n.fault, c.self)
    ELSE Returned(<<c.ret, n.ret>>, c.self)

PopNext(s, c) ==
    The({Popped(c, n) : n \in {IF c.fault # "none" THEN c ELSE next(s, c.self)}})

pop(s, self) == The({PopNext(s, c) : c \in {current_token(s, self)}})

\* accept from c, what self.current_token() gave
Accepted(s, c, e) ==
    IF c.fault # "none" THEN Raised(c.fault, c.self)
    ELSE IF c.ret = None THEN Raised("AttributeError", c.self)
    ELSE IF e = c.ret.text THEN next(s, c.self)
    ELSE Raised("SyntaxErr", c.self)

accept(s, self, e) == The({Accepted(s, c, e) : c \in {current_token(s, self)}})

----------------------------------------------------------------------------
(* The parse rules *)

\* captured_by with InfixRule.captured_by deaf to the precedences
captured_by_any(rule, outer) ==
    CASE rule.kind = "BlockRule"        -> TRUE
      [] rule.kind = "PrefixRule"       -> TRUE
      [] rule.kind = "TokenRule"        -> TRUE
      [] rule.kind = "InfixRule"        -> TRUE
      [] rule.kind = "RInfixRule"       -> outer.precedence <= rule.precedence
      [] rule.kind = "PostfixBlockRule" -> outer.precedence < rule.precedence
      [] rule.kind = "PostfixRule"      -> outer.precedence < rule.precedence
      [] rule.kind = "TerminatorRule"   -> outer.precedence < rule.precedence

\* captured_by with the comparisons of InfixRule.captured_by and
\* RInfixRule.captured_by taken one for the other
captured_by_swapped(rule, outer) ==
    CASE rule.kind = "BlockRule"        -> TRUE
      [] rule.kind = "PrefixRule"       -> TRUE
      [] rule.kind = "TokenRule"        -> TRUE
      [] rule.kind = "InfixRule"        -> outer.precedence <= rule.precedence
      [] rule.kind = "RInfixRule"       -> outer.precedence < rule.precedence
      [] rule.kind = "PostfixBlockRule" -> outer.precedence < rule.precedence
      [] rule.kind = "PostfixRule"      -> outer.precedence < rule.precedence
      [] rule.kind = "TerminatorRule"   -> outer.precedence < rule.precedence

\* rule.captured_by(outer).  BlockRule returns outer itself, a namedtuple
\* with fields, which is true.
captured_by(rule, outer) ==
    CASE rule.kind = "BlockRule"        -> TRUE
      [] rule.kind = "PrefixRule"       -> TRUE
      [] rule.kind = "TokenRule"        -> TRUE
      [] rule.kind = "InfixRule"        -> outer.precedence < rule.precedence
      [] rule.kind = "RInfixRule"       -> outer.precedence <= rule.precedence
      [] rule.kind = "PostfixBlockRule" -> outer.precedence < rule.precedence
      [] rule.kind = "PostfixRule"      -> outer.precedence < rule.precedence
      [] rule.kind = "TerminatorRule"   -> outer.precedence < rule.precedence

\* A rule method runs to its call of parse_expr, if it makes one:
\* [fault, item, parser, call], call the outer context it passes or NoCall.
NoCall == [kind |-> "NoCall"]

ToCall(r, item, outer) ==
    [fault |-> r.fault, item |-> item, parser |-> r.ret, call |-> outer]

\* BlockRule.parse_prefix passing on the outer it was given:
\* parse_expr(outer=outer)
BlockRule_parse_prefix_outer(rule, s, p, outer) ==
    The({ToCall(r, None, outer) : r \in {accept(s, p, rule.op)}})

\* BlockRule.parse_prefix to its call: accept(self.op), parse_expr(Everything)
BlockRule_parse_prefix(rule, s, p, outer) ==
    The({ToCall(r, None, Everything) : r \in {accept(s, p, rule.op)}})

\* PrefixRule.parse_prefix with parse_expr(outer=Everything) for its operand
PrefixRule_parse_prefix_everything(rule, s, p, outer) ==
    The({ToCall(r, None, Everything) : r \in {accept(s, p, rule.op)}})

\* PrefixRule.parse_prefix to its call: accept(self.op), parse_expr(outer=self)
PrefixRule_parse_prefix(rule, s, p, outer) ==
    The({ToCall(r, None, rule) : r \in {accept(s, p, rule.op)}})

\* TokenRule.parse_prefix: return parser.pop()
PopCall(r) ==
    IF r.fault # "none"
    THEN [fault |-> r.fault, item |-> None, parser |-> r.self, call |-> NoCall]
    ELSE [fault |-> "none", item |-> r.ret[1], parser |-> r.ret[2], call |-> NoCall]

TokenRule_parse_prefix(rule, s, p, outer) ==
    The({PopCall(r) : r \in {pop(s, p)}})

\* TerminatorRule has no parse_prefix
parse_prefix(rule, s, p, outer) ==
    CASE rule.kind = "BlockRule"  -> BlockRule_parse_prefix(rule, s, p, outer)
      [] rule.kind = "PrefixRule" -> PrefixRule_parse_prefix(rule, s, p, outer)
      [] rule.kind = "TokenRule"  -> TokenRule_parse_prefix(rule, s, p, outer)
      [] OTHER -> [fault |-> "AttributeError", item |-> None, parser |-> p,
                   call |-> NoCall]

\* InfixRule.parse_suffix to its call (RInfixRule inherits it)
InfixRule_parse_suffix(rule, s, item, p, outer) ==
    The({ToCall(r, item, rule) : r \in {accept(s, p, rule.op)}})

\* PostfixBlockRule.parse_suffix to its call
PostfixBlockRule_parse_suffix(rule, s, item, p, outer) ==
    The({ToCall(r, item, Everything) : r \in {accept(s, p, rule.op)}})

PostfixRule_parse_suffix(rule, s, item, p, outer) ==
    The({ToCall(r, Postfix(rule.op, item), NoCall) : r \in {accept(s, p, rule.op)}})

parse_suffix(rule, s, item, p, outer) ==
    CASE rule.kind \in {"InfixRule", "RInfixRule"} ->
             InfixRule_parse_suffix(rule, s, item, p, outer)
      [] rule.kind = "PostfixBlockRule" ->
             PostfixBlockRule_parse_suffix(rule, s, item, p, outer)
      [] rule.kind = "PostfixRule" ->
             PostfixRule_parse_suffix(rule, s, item, p, outer)

\* The rest of a rule method, from the return of its parse_expr call with
\* (item, p): [fault, item, parser].
Ended(r, item) == [fault |-> r.fault, item |-> item, parser |-> r.ret]

BlockRule_return(rule, s, item, p) ==
    The({Ended(r, Block(rule.op, item, rule.end_char)) :
         r \in {accept(s, p, rule.end_char)}})

PrefixRule_return(rule, s, new_item, p) ==
    Ended(Returned(p, p), Prefix(rule.op, new_item))

InfixRule_return(rule, s, left, right, p) ==
    Ended(Returned(p, p), Infix(rule.op, left, right))

PostfixBlockRule_return(rule, s, left, right, p) ==
    The({Ended(r, PostfixBlock(rule.op, left, right, rule.end_char)) :
         r \in {accept(s, p, rule.end_char)}})

----------------------------------------------------------------------------
(* parse_stmts and parse_expr as steps; an activation of parse_expr is a   *)
(* frame of the stack                                                      *)

\* parse_expr(self, outer) at its first line; via is the rule whose method
\* made the call, or FromStmts
FromStmts == [kind |-> "parse_stmts"]

Frame(self, outer, via) ==
    [self |-> self, outer |-> outer, pos |-> None, item |-> None,
     parser |-> None, at |-> "start", via |-> via]

Top == stack[Len(stack)]

\* A step of parse_expr gives [fault, frame, rule, call]: the frame as the
\* step leaves it, and the rule and the outer context of the parse_expr call
\* a rule method makes, if it makes one.
Stop(f, e) == [fault |-> e, frame |-> f, rule |-> None, call |-> NoCall]

Go(f, rule, call) == [fault |-> "none", frame |-> f, rule |-> rule, call |-> call]

\* item, parser = rule.parse_prefix(self, outer), r what the method gave
parse_expr_parsed(f, c, p, rule, r) ==
    IF r.fault # "none" THEN Stop(f, r.fault)
    ELSE Go([f EXCEPT !.self = c.self, !.pos = p.ret, !.item = r.item,
                      !.parser = r.parser,
                      !.at = IF r.call = NoCall THEN "loop" ELSE "call"],
            rule, r.call)

\* if rule and rule.captured_by(outer): ... else: return None, self
parse_expr_rule(s, f, c, p, g) ==
    IF g.fault # "none" THEN Stop(f, g.fault)
    ELSE IF ~(g.ret # None /\ captured_by(g.ret, f.outer))
         THEN Go([f EXCEPT !.self = c.self, !.pos = p.ret, !.item = None,
                           !.parser = c.self, !.at = "return"],
                 None, NoCall)
    ELSE The({parse_expr_parsed(f, c, p, g.ret, r) :
              r \in {parse_prefix(g.ret, s, c.self, f.outer)}})

\* rule = self.lang.get_prefix_rule(item, outer); item.name of None raises
parse_expr_pos(s, f, c, p) ==
    IF p.fault # "none" THEN Stop(f, p.fault)
    ELSE IF c.ret = None THEN Stop(f, "AttributeError")
    ELSE The({parse_expr_rule(s, f, c, p, g) :
              g \in {get_prefix_rule(language, c.ret)}})

\* pos = self.pos(), c what item = self.current_token() gave
parse_expr_item(s, f, c) ==
    IF c.fault # "none" THEN Stop(f, c.fault)
    ELSE The({parse_expr_pos(s, f, c, p) : p \in {pos(c.self)}})

\* parse_expr, lines 153-161: the prefix rule of the current token
parse_expr_prefix(s, f) ==
    The({parse_expr_item(s, f, c) : c \in {current_token(s, f.self)}})

\* while parser and parser.pos() != pos
Moved(f, p) ==
    IF p.fault # "none" THEN Raised(p.fault, f.parser)
    ELSE Returned(p.ret # f.pos, f.parser)

\* while parser: the condition without parser.pos() != pos
climbing_anywhere(f) ==
    IF ~nonzero(f.parser) THEN Returned(FALSE, f.parser)
    ELSE Returned(TRUE, f.parser)

climbing(f) ==
    IF ~nonzero(f.parser) THEN Returned(FALSE, f.parser)
    ELSE The({Moved(f, p) : p \in {pos(f.parser)}})

\* item, parser = rule.parse_suffix(item, parser, outer), r what it gave
climb_parsed(f, p, rule, r) ==
    IF r.fault # "none" THEN Stop(f, r.fault)
    ELSE Go([f EXCEPT !.pos = p.ret, !.item = r.item, !.parser = r.parser,
                      !.at = IF r.call = NoCall THEN "loop" ELSE "call"],
            rule, r.call)

\* if rule and rule.captured_by(outer)
climb_rule(s, f, c, p, rule) ==
    IF ~(rule # None /\ captured_by(rule, f.outer))
    THEN Go([f EXCEPT !.pos = p.ret, !.parser = c.self], None, NoCall)
    ELSE The({climb_parsed(f, p, rule, r) :
              r \in {parse_suffix(rule, s, f.item, c.self, f.outer)}})

\* rule = self.lang.get_suffix_rule(first, outer); first.text of None raises
climb_pos(s, f, c, p) ==
    IF p.fault # "none" THEN Stop(f, p.fault)
    ELSE IF c.ret = None THEN Stop(f, "AttributeError")
    ELSE The({climb_rule(s, f, c, p, rule) :
              rule \in {get_suffix_rule(language, c.ret)}})

\* pos = parser.pos(), c what first = parser.current_token() gave
climb_first(s, f, c) ==
    IF c.fault # "none" THEN Stop(f, c.fault)
    ELSE The({climb_pos(s, f, c, p) : p \in {pos(c.self)}})

\* the while condition gave w
climb(s, f, w) ==
    IF w.fault # "none" THEN Stop(f, w.fault)
    ELSE IF ~w.ret THEN Go([f EXCEPT !.at = "return"], None, NoCall)
    ELSE The({climb_first(s, f, c) : c \in {current_token(s, f.parser)}})

\* parse_expr, lines 164-172: one test of the while condition and, when it
\* holds, one pass of the body
parse_expr_suffix(s, f) == The({climb(s, f, w) : w \in {climbing(f)}})

\* while parser and parser.current_token().name == 'terminator':
\*     parser = parser.next()
RECURSIVE skip_terminators(_, _)
skip_next(s, c, n) ==
    IF n.fault # "none" THEN Raised(n.fault, c.self)
    ELSE skip_terminators(s, n.ret)

skip_token(s, c) ==
    IF c.ret = None THEN Raised("AttributeError", c.self)
    ELSE IF c.ret.name # "terminator" THEN Returned(c.self, c.self)
    ELSE The({skip_next(s, c, n) : n \in {next(s, c.self)}})

skip_terminators(s, p) ==
    IF ~nonzero(p) THEN Returned(p, p)
    ELSE The({skip_token(s, c) : c \in {current_token(s, p)}})

\* parse_stmts, lines 137-148, from the return of parse_expr with (expr, p):
\* [fault, exprs, parser, again], again when the while loop goes on
Stmts(e, xs, q, again) ==
    [fault |-> e, exprs |-> xs, parser |-> q, again |-> again]

Skipped(xs, sk) == Stmts(sk.fault, xs, sk.ret, TRUE)

\* if parser and parser.current_token().name == 'terminator': ... else: break
stmts_token(s, xs, c) ==
    IF c.ret = None THEN Stmts("AttributeError", xs, c.self, FALSE)
    ELSE IF c.ret.name = "terminator"
         THEN The({Skipped(xs, sk) : sk \in {skip_terminators(s, c.self)}})
    ELSE Stmts("none", xs, c.self, FALSE)

\* pos = parser.pos(); if expr: exprs.append(expr)
stmts_pos(s, xs, p, ps) ==
    IF ps.fault # "none" THEN Stmts(ps.fault, xs, p, FALSE)
    ELSE IF ~nonzero(p) THEN Stmts("none", xs, p, FALSE)
    ELSE The({stmts_token(s, xs, c) : c \in {current_token(s, p)}})

\* parse_stmts without if expr: every expr is appended
parse_stmts_body_append(s, xs, expr, p) ==
    The({stmts_pos(s, Append(xs, expr), p, ps) : ps \in {pos(p)}})

parse_stmts_body(s, xs, expr, p) ==
    The({stmts_pos(s, IF Bool(expr) THEN Append(xs, expr) ELSE xs, p, ps) :
         ps \in {pos(p)}})

\* Language.parse, lines 346-349, from the return of parse_stmts:
\* if parser: raise SyntaxErr(... parser.pos().off ...), else return items
parse_return(items, p) ==
    IF nonzero(p)
    THEN [fault |-> IF pos(p).fault # "none" THEN pos(p).fault ELSE "SyntaxErr",
          result |-> None]
    ELSE [fault |-> "none", result |-> items]

----------------------------------------------------------------------------
(* The texts parsed *)

\* test, the text the module parses when it is run
test ==
    <<"\n">>
    \o <<"1"," ","+"," ","2","\n">>
    \o <<"1"," ","+"," ","2"," ","+"," ","3"," ","+"," ","4"," ","+"," ","5","\n">>
    \o <<"1"," ","+"," ","2"," ","*"," ","3"," ","+"," ","4","\n">>
    \o <<"2"," ","*","*"," ","3"," ","*","*"," ","4","\n">>
    \o <<"-"," ","2"," ","*","*"," ","3"," ","*","*"," ","4"," ","*"," ","8","\n">>
    \o <<"x"," ","["," ","0"," ","]"," ","*"," ","9","\n">>
    \o <<"("," ","1"," ","+"," ","2"," ",")"," ","*"," ","3","\n">>
    \o <<"1","*","2","+","3","+","x","[","0","]","[","1","]","{","2","}","\n">>

\* the characters of the arbitrary texts
Chars == {"1", "+", "*", "(", ")", " ", "\n", "@"}

\* longest arbitrary text
MaxLen == 3

\* every text over Chars to that length: texts that parse, texts with
\* unknown characters, operators without operands, brackets left open
Texts == SeqsUpTo(Chars, MaxLen)

\* An expression is written as its operands and the operators between them,
\* an operand as [tokens, tree]: the texts of its tokens and the tree it
\* stands for, with the text of a token for the token.
Operand(tokens, tree) == [tokens |-> tokens, tree |-> tree]

Digits == <<"1", "2", "3", "4", "5", "6", "7", "8", "9">>

\* the i-th atom, a number or an identifier
Atom(style, i) ==
    IF style.atoms = "number" THEN Operand(<< <<Digits[i]>> >>, <<Digits[i]>>)
    ELSE Operand(<< <<"x", Digits[i]>> >>, <<"x", Digits[i]>>)

\* the atoms i .. j
Atoms(style, i, j) == [k \in 1 .. (j - i + 1) |-> Atom(style, i + k - 1)]

\* numbers with a blank between the tokens, identifiers with none
Styles == {[atoms |-> "number", sep |-> <<" ">>],
           [atoms |-> "identifier", sep |-> <<>>]}

\* the text of tokens with sep between them
RECURSIVE Join(_, _)
Join(tokens, sep) ==
    IF tokens = <<>> THEN <<>>
    ELSE IF Len(tokens) = 1 THEN tokens[1]
    ELSE tokens[1] \o sep \o Join(Tail(tokens), sep)

\* the tokens of operands with the operators os between them
RECURSIVE ChainTokens(_, _)
ChainTokens(operands, os) ==
    IF os = <<>> THEN operands[1].tokens
    ELSE operands[1].tokens \o <<os[1]>> \o ChainTokens(Tail(operands), Tail(os))

Trees(operands) == [k \in 1 .. Len(operands) |-> operands[k].tree]

\* the registered suffix operators written with symbols, by rule kind
Symbols == {"*", "/", "%", "+", "-", "<", ">", "&", "^", "|", "!", "="}

OpsOf(kind) ==
    {o \in DOMAIN language.suffix :
        /\ language.suffix[o].kind = kind
        /\ \A k \in 1 .. Len(o) : o[k] \in Symbols}

InfixOps == OpsOf("InfixRule")

RInfixOps == OpsOf("RInfixRule")

Prec(o) == language.suffix[o].precedence

RightAssoc(o) == language.suffix[o].kind = "RInfixRule"

\* The tree of a chain by the table alone: the operator that binds least
\* is the root, the last of them when they associate to the left, the first
\* when they associate to the right.
SplitAt(os) ==
    CHOOSE k \in 1 .. Len(os) :
        \A j \in 1 .. Len(os) :
            \/ Prec(os[j]) > Prec(os[k])
            \/ /\ Prec(os[j]) = Prec(os[k])
               /\ IF RightAssoc(os[k]) THEN j >= k ELSE j <= k

RECURSIVE ByPrecedence(_, _)
SplitTree(trees, os, k) ==
    Infix(os[k],
          ByPrecedence(SubSeq(trees, 1, k), SubSeq(os, 1, k - 1)),
          ByPrecedence(SubSeq(trees, k + 1, Len(trees)), SubSeq(os, k + 1, Len(os))))

ByPrecedence(trees, os) ==
    IF os = <<>> THEN trees[1] ELSE SplitTree(trees, os, SplitAt(os))

\* an operator the operand of prefix operator p takes: it binds tighter
\* than p, or as tight when it associates to the right
Binds(o, p) ==
    IF RightAssoc(o) THEN Prec(o) >= language.prefix[p].precedence
    ELSE Prec(o) > language.prefix[p].precedence

\* how many of the operators os the operand of p takes: those before the
\* first that does not bind
Absorbed(p, os) ==
    CHOOSE k \in 0 .. Len(os) :
        /\ \A j \in 1 .. k : Binds(os[j], p)
        /\ k < Len(os) => ~Binds(os[k + 1], p)

PrefixTree(p, trees, os, k) ==
    ByPrecedence(<<Prefix(p, ByPrecedence(SubSeq(trees, 1, k + 1), SubSeq(os, 1, k)))>>
                     \o SubSeq(trees, k + 2, Len(trees)),
                 SubSeq(os, k + 1, Len(os)))

\* The expression p operands[1] os[1] operands[2] ..., p a prefix operator
\* or <<>> for none, as [text, tree]
Expr(p, operands, os, sep) ==
    [text |-> Join((IF p = <<>> THEN <<>> ELSE <<p>>) \o ChainTokens(operands, os), sep),
     tree |-> IF p = <<>> THEN ByPrecedence(Trees(operands), os)
              ELSE PrefixTree(p, Trees(operands), os, Absorbed(p, os))]

\* the sequences of 0 .. n elements of S
ChainsOf(S, n) == UNION {[1 .. k -> S] : k \in 0 .. n}

TextsOf(cases) == {c.text : c \in cases}

\* x a y b z for every two left-associative operators and three atoms
PairCases ==
    {Expr(<<>>, Atoms(style, 1, 3), <<a, b>>, style.sep) :
        a \in InfixOps, b \in InfixOps, style \in Styles}

\* longest chain of one operator, in operators
MaxChain == 3

\* x op y op z ... of one operator, left or right associative
ChainCases ==
    {Expr(<<>>, Atoms(style, 1, n + 1), [k \in 1 .. n |-> op], style.sep) :
        op \in InfixOps \cup RInfixOps, n \in 1 .. MaxChain, style \in Styles}

\* the registered prefix operators
PrefixOps == {o \in DOMAIN language.prefix : language.prefix[o].kind = "PrefixRule"}

\* f [ arg ]
Indexed(f, arg) ==
    Operand(f.tokens \o << <<"[">> >> \o arg.tokens \o << <<"]">> >>,
            PostfixBlock(<<"[">>, f.tree, arg.tree, <<"]">>))

\* the operators after a prefix operator: one that binds tighter and
\* associates to the right, one that binds less, one that binds least
AfterPrefixOps == {<<"*", "*">>, <<"*">>, <<"=">>}

\* the atoms 1 .. n, the first one indexed or not
PrefixOperands(style, n, first) ==
    IF first = "atom" THEN Atoms(style, 1, n)
    ELSE [Atoms(style, 1, n) EXCEPT ![1] = Indexed(Atom(style, 1), Atom(style, 9))]

\* p x op y op z ... for every prefix operator
PrefixCases ==
    {Expr(p, PrefixOperands(style, Len(os) + 1, first), os, style.sep) :
        p \in PrefixOps, os \in ChainsOf(AfterPrefixOps, MaxChain),
        style \in Styles, first \in {"atom", "indexed"}}

\* - 2 ** 3 ** 4 * 8, a line of test
PrefixExample ==
    <<"-"," ","2"," ","*","*"," ","3"," ","*","*"," ","4"," ","*"," ","8">>

\* longest expression inside a bracket, in operators
MaxInner == 2

InnerOps == {<<"+">>, <<"*">>}

\* the operators around a bracket: one that binds tighter than a sum
\* inside, one that binds less than a product inside
OuterOps == {<<"*">>, <<"+">>}

\* the opening texts of the brackets tried
Opens == {<<"(">>, <<"[">>}

\* open inner close as an operand: a Block
Bracketed(open, operands, os) ==
    Operand(<<open>> \o ChainTokens(operands, os) \o <<language.prefix[open].end_char>>,
            Block(open, ByPrecedence(Trees(operands), os),
                  language.prefix[open].end_char))

\* f open inner close as an operand: a PostfixBlock
Called(f, open, operands, os) ==
    Operand(f.tokens \o <<open>> \o ChainTokens(operands, os)
                \o <<language.suffix[open].end_char>>,
            PostfixBlock(open, f.tree, ByPrecedence(Trees(operands), os),
                         language.suffix[open].end_char))

\* what stands before a bracket: nothing, a prefix operator, or an atom and
\* an operator; what stands after it: nothing, or an operator and an atom
Befores ==
    {[p |-> <<>>, op |-> <<>>], [p |-> <<"-">>, op |-> <<>>]}
        \cup {[p |-> <<>>, op |-> o] : o \in OuterOps}

Afters == {<<>>} \cup OuterOps

\* a case [text, tree] with the tree that stands between the brackets
WithInner(case, inner) ==
    [text |-> case.text, tree |-> case.tree, inner |-> inner]

Around(style, before, operand, after) ==
    Expr(before.p,
         (IF before.op = <<>> THEN <<>> ELSE <<Atom(style, 8)>>) \o <<operand>>
             \o (IF after = <<>> THEN <<>> ELSE <<Atom(style, 9)>>),
         (IF before.op = <<>> THEN <<>> ELSE <<before.op>>)
             \o (IF after = <<>> THEN <<>> ELSE <<after>>),
         style.sep)

\* the expressions put inside the brackets, alone
InnerCases ==
    {Expr(<<>>, Atoms(style, 1, Len(os) + 1), os, style.sep) :
        os \in ChainsOf(InnerOps, MaxInner), style \in Styles}

\* before open inner close after
BlockCases ==
    {WithInner(Around(style, before,
                      Bracketed(open, Atoms(style, 1, Len(os) + 1), os), after),
               ByPrecedence(Trees(Atoms(style, 1, Len(os) + 1)), os)) :
        os \in ChainsOf(InnerOps, MaxInner), style \in Styles, open \in Opens,
        before \in Befores, after \in Afters}

\* before f open inner close after
PostfixBlockCases ==
    {WithInner(Around(style, before,
                      Called(Atom(style, 7), open, Atoms(style, 1, Len(os) + 1), os),
                      after),
               ByPrecedence(Trees(Atoms(style, 1, Len(os) + 1)), os)) :
        os \in ChainsOf(InnerOps, MaxInner), style \in Styles, open \in Opens,
        before \in Befores, after \in Afters}

\* most statements of a text
MaxStmts == 2

\* the statements: an atom, a sum
StmtExprs(style) ==
    {Expr(<<>>, Atoms(style, 1, Len(os) + 1), os, style.sep) :
        os \in {<<>>, << <<"+">> >>}}

\* the runs of terminators between two statements, and before the first
\* and after the last one
TermRuns == {<<"\n">>, <<";">>, <<"\n", "\n">>, <<";", "\n">>}

Margins == {<<>>, <<"\n">>, <<";", "\n">>}

RECURSIVE JoinTexts(_, _)
JoinTexts(es, run) ==
    IF es = <<>> THEN <<>>
    ELSE IF Len(es) = 1 THEN es[1].text
    ELSE es[1].text \o run \o JoinTexts(Tail(es), run)

\* lead E1 run E2 run ... En trail as [text, trees]
Statements(es, run, lead, trail) ==
    [text |-> lead \o JoinTexts(es, run) \o trail, trees |-> Trees(es)]

StmtCases ==
    {c \in {Statements(es, run, lead, trail) :
               es \in UNION {ChainsOf(StmtExprs(style), MaxStmts) : style \in Styles},
               run \in TermRuns, lead \in Margins, trail \in Margins} :
        c.text # <<>>}

\* 1 + 2 <nl> 1 + 2 + 3, two lines of test
StmtExample ==
    <<"1"," ","+"," ","2","\n","1"," ","+"," ","2"," ","+"," ","3">>

\* ( 1 + 2 with the closing bracket missing
UnclosedExample == <<"(","1"," ","+"," ","2">>

Sources ==
    Texts \cup {test, PrefixExample, StmtExample, UnclosedExample}
        \cup TextsOf(PairCases) \cup TextsOf(ChainCases) \cup TextsOf(PrefixCases)
        \cup TextsOf(InnerCases) \cup TextsOf(BlockCases)
        \cup TextsOf(PostfixBlockCases) \cup TextsOf(StmtCases)

----------------------------------------------------------------------------
(* Spec: Language.parse *)

\* language.parse(source) is about to run
Start(texts) ==
    /\ source \in texts
    /\ pc = "parse"
    /\ exprs = <<>>
    /\ parser = None
    /\ stack = <<>>
    /\ fault = "none"
    /\ result = None
    /\ position = StartPosition
    /\ cursor = None
    /\ seen = None

Init == Start(Sources)

Raise(e) ==
    /\ pc' = "raised"
    /\ fault' = e
    /\ UNCHANGED <<source, exprs, parser, stack, result, position, cursor, seen>>

\* the end of Language.parse after parse_stmts returned (xs, p)
Finish(xs, p) ==
    \E r \in {parse_return(xs, p)} :
        /\ pc' = IF r.fault = "none" THEN "done" ELSE "raised"
        /\ fault' = r.fault
        /\ result' = r.result
        /\ exprs' = xs
        /\ parser' = p
        /\ stack' = <<>>
        /\ UNCHANGED <<source, position, cursor, seen>>

\* Language.parse to the while of parse_stmts; an empty source is false and
\* parse returns None
Parse ==
    /\ pc = "parse"
    /\ IF source = <<>>
       THEN /\ pc' = "done"
            /\ UNCHANGED <<exprs, parser>>
       ELSE /\ pc' = "stmts"
            /\ exprs' = <<>>
            /\ parser' = ParserCursor(TokenFilter(RegexLexer(StartPosition)))
    /\ UNCHANGED <<source, stack, fault, result, position, cursor, seen>>

\* parse_stmts: while parser: ... = parser.parse_expr(outer=Everything)
StmtsLoop ==
    /\ pc = "stmts"
    /\ IF nonzero(parser)
       THEN /\ pc' = "expr"
            /\ stack' = <<Frame(parser, Everything, FromStmts)>>
            /\ UNCHANGED <<source, exprs, parser, fault, result, position, cursor, seen>>
       ELSE Finish(exprs, parser)

\* a step of parse_expr gave o: the frame is left as o.frame and, when a
\* rule method calls parse_expr, the frame of the call is pushed
Step(o) ==
    IF o.fault # "none" THEN Raise(o.fault)
    ELSE /\ stack' = IF o.call = NoCall
                     THEN [stack EXCEPT ![Len(stack)] = o.frame]
                     ELSE Append([stack EXCEPT ![Len(stack)] = o.frame],
                                 Frame(o.frame.parser, o.call, o.rule))
         /\ UNCHANGED <<source, pc, exprs, parser, fault, result, position, cursor, seen>>

ExprPrefix ==
    /\ pc = "expr"
    /\ Top.at = "start"
    /\ \E o \in {parse_expr_prefix(source, Top)} : Step(o)

ExprSuffix ==
    /\ pc = "expr"
    /\ Top.at = "loop"
    /\ \E o \in {parse_expr_suffix(source, Top)} : Step(o)

\* the frame below the top one: the parse_expr whose rule made the call
Caller == stack[Len(stack) - 1]

\* parse_expr of Top returned (Top.item, Top.parser) to the method of rule
\* kind, which ends with r and returns to the parse_expr below
Return(r) ==
    IF r.fault # "none" THEN Raise(r.fault)
    ELSE /\ stack' = [SubSeq(stack, 1, Len(stack) - 1) EXCEPT ![Len(stack) - 1] =
                         [Caller EXCEPT !.item = r.item, !.parser = r.parser,
                                        !.at = "loop"]]
         /\ UNCHANGED <<source, pc, exprs, parser, fault, result, position, cursor, seen>>

Returning(kinds) ==
    /\ pc = "expr"
    /\ Top.at = "return"
    /\ Top.via.kind \in kinds

BlockReturn ==
    /\ Returning({"BlockRule"})
    /\ \E r \in {BlockRule_return(Top.via, source, Top.item, Top.parser)} : Return(r)

PrefixReturn ==
    /\ Returning({"PrefixRule"})
    /\ \E r \in {PrefixRule_return(Top.via, source, Top.item, Top.parser)} : Return(r)

InfixReturn ==
    /\ Returning({"InfixRule", "RInfixRule"})
    /\ \E r \in {InfixRule_return(Top.via, source, Caller.item, Top.item, Top.parser)} : Return(r)

PostfixBlockReturn ==
    /\ Returning({"PostfixBlockRule"})
    /\ \E r \in {PostfixBlockRule_return(Top.via, source, Caller.item, Top.item, Top.parser)} : Return(r)

StmtsReturn ==
    /\ Returning({"parse_stmts"})
    /\ \E r \in {parse_stmts_body(source, exprs, Top.item, Top.parser)} :
           IF r.fault # "none" THEN Raise(r.fault)
           ELSE IF r.again
           THEN /\ pc' = "stmts"
                /\ exprs' = r.exprs
                /\ parser' = r.parser
                /\ stack' = <<>>
                /\ UNCHANGED <<source, fault, result, position, cursor, seen>>
           ELSE Finish(r.exprs, r.parser)

Next ==
    \/ Parse
    \/ StmtsLoop
    \/ ExprPrefix
    \/ ExprSuffix
    \/ BlockReturn
    \/ PrefixReturn
    \/ InfixReturn
    \/ PostfixBlockReturn
    \/ StmtsReturn

Spec == Init /\ [][Next]_vars

----------------------------------------------------------------------------
(* The results of Language.parse *)

\* a tree with the text of each token for the token
RECURSIVE Shape(_)
Shape(t) ==
    CASE t.type = "token" -> t.text
      [] t.type = "infix" -> Infix(t.op, Shape(t.left), Shape(t.right))
      [] t.type = "prefix" -> Prefix(t.op, Shape(t.right))
      [] t.type = "block" -> Block(t.op, Shape(t.item), t.close)
      [] t.type = "postfixblock" ->
             PostfixBlock(t.op, Shape(t.left), Shape(t.right), t.close)
      [] t.type = "postfix" -> Postfix(t.op, Shape(t.left))
      [] OTHER -> t

Shapes(items) == [k \in 1 .. Len(items) |-> Shape(items[k])]

\* what stands between the brackets of the Blocks and PostfixBlocks of a tree
RECURSIVE Inside(_)
Inside(t) ==
    CASE t.type = "infix" -> Inside(t.left) \cup Inside(t.right)
      [] t.type = "prefix" -> Inside(t.right)
      [] t.type = "block" -> {Shape(t.item)} \cup Inside(t.item)
      [] t.type = "postfixblock" ->
             {Shape(t.right)} \cup Inside(t.left) \cup Inside(t.right)
      [] t.type = "postfix" -> Inside(t.left)
      [] OTHER -> {}

\* the parse_expr(outer=Everything) that parse_stmts called returns
Returns == pc = "expr" /\ Len(stack) = 1 /\ Top.at = "return"

\* it returns tree and an exhausted cursor
ReturnsTree(tree) == Shape(Top.item) = tree /\ ~nonzero(Top.parser)

\* Language.parse returned or raised
Parsed == pc \in {"done", "raised"}

\* the atoms of x a y b z
X(style) == Atom(style, 1).tree

Y(style) == Atom(style, 2).tree

Z(style) == Atom(style, 3).tree

PairText(a, b, style) ==
    Expr(<<>>, Atoms(style, 1, 3), <<a, b>>, style.sep).text

\* x a y b z, a and b left associative and of different precedence: the
\* operator of lower precedence is the root
C1Cases ==
    {[text |-> PairText(p[1], p[2], style),
      tree |-> IF Prec(p[1]) > Prec(p[2])
               THEN Infix(p[2], Infix(p[1], X(style), Y(style)), Z(style))
               ELSE Infix(p[1], X(style), Infix(p[2], Y(style), Z(style)))] :
        p \in {q \in InfixOps \X InfixOps : Prec(q[1]) # Prec(q[2])},
        style \in Styles}

\* C1: parse_expr under Everything on x a y b z, a and b left-associative
\* infix operators and x, y, z atoms, raises nothing and returns
\* Infix(b, Infix(a, x, y), z) when precedence(a) > precedence(b) and
\* Infix(a, x, Infix(b, y, z)) when precedence(a) < precedence(b), with the
\* cursor exhausted.
C1_Precedence ==
    (Returns \/ pc = "raised") =>
        \A c \in C1Cases :
            source = c.text => pc # "raised" /\ ReturnsTree(c.tree)

\* 1 * 2 + 3 gives ((1 * 2) + 3)
C1_Witness ==
    /\ source = <<"1", " ", "*", " ", "2", " ", "+", " ", "3">>
    /\ Returns
    /\ ReturnsTree(Infix(<<"+">>, Infix(<<"*">>, <<"1">>, <<"2">>), <<"3">>))

\* x op y op z ... with the operators nested to the left
RECURSIVE LeftTree(_, _, _)
LeftTree(os, trees, n) ==
    IF n = 0 THEN trees[1]
    ELSE Infix(os[n], LeftTree(os, trees, n - 1), trees[n + 1])

\* x op y op z ... with the operators nested to the right, from the i-th
RECURSIVE RightTree(_, _, _)
RightTree(os, trees, i) ==
    IF i > Len(os) THEN trees[i]
    ELSE Infix(os[i], trees[i], RightTree(os, trees, i + 1))

\* a chain of one operator, or of two left-associative operators of equal
\* precedence: nested to the left when the rule is an InfixRule, to the
\* right when it is an RInfixRule
C2Cases ==
    {[text |-> Expr(<<>>, Atoms(style, 1, n + 1), [k \in 1 .. n |-> op], style.sep).text,
      tree |-> IF language.suffix[op].kind = "InfixRule"
               THEN LeftTree([k \in 1 .. n |-> op], Trees(Atoms(style, 1, n + 1)), n)
               ELSE RightTree([k \in 1 .. n |-> op], Trees(Atoms(style, 1, n + 1)), 1)] :
        op \in InfixOps \cup RInfixOps, n \in 1 .. MaxChain, style \in Styles}
    \cup
    {[text |-> PairText(p[1], p[2], style),
      tree |-> Infix(p[2], Infix(p[1], X(style), Y(style)), Z(style))] :
        p \in {q \in InfixOps \X InfixOps : Prec(q[1]) = Prec(q[2])},
        style \in Styles}

\* C2: a chain x op y op z ... of one infix operator, or of operators of
\* equal precedence and the same rule kind, parses to the tree nested to the
\* left, Infix(op, Infix(op, x, y), z), when the operator was registered
\* with def_infix, and to the tree nested to the right,
\* Infix(op, x, Infix(op, y, z)), when it was registered with def_rinfix,
\* for every length of chain to MaxChain operators.
C2_Associativity ==
    (Returns \/ pc = "raised") =>
        \A c \in C2Cases :
            source = c.text => pc # "raised" /\ ReturnsTree(c.tree)

\* x1**x2**x3 gives (x1 ** (x2 ** x3))
C2_Witness ==
    /\ source = <<"x","1","*","*","x","2","*","*","x","3">>
    /\ Returns
    /\ ReturnsTree(Infix(<<"*","*">>, <<"x","1">>,
                         Infix(<<"*","*">>, <<"x","2">>, <<"x","3">>)))

\* C3: the item between the opening and the closing token of a Block or a
\* PostfixBlock is the tree parse_expr(Everything) returns for the inner
\* tokens alone, whatever stands before and after the bracket (nothing, a
\* prefix operator, an operator that binds tighter or less than the inner
\* ones), and the tree around the bracket is the tree of the outer
\* operators with the bracket for an operand.
C3_BracketInsulation ==
    (Returns \/ pc = "raised") =>
        /\ \A c \in InnerCases :
               source = c.text => pc # "raised" /\ ReturnsTree(c.tree)
        /\ \A c \in BlockCases \cup PostfixBlockCases :
               source = c.text =>
                   /\ pc # "raised"
                   /\ ReturnsTree(c.tree)
                   /\ Inside(Top.item) = {c.inner}

\* 8 * ( 1 + 2 * 3 ) + 9: the bracket holds (1 + (2 * 3))
C3_Witness ==
    /\ source = <<"8"," ","*"," ","("," ","1"," ","+"," ","2"," ","*"," ","3",
                  " ",")"," ","+"," ","9">>
    /\ Returns
    /\ Inside(Top.item) = {Infix(<<"+">>, <<"1">>, Infix(<<"*">>, <<"2">>, <<"3">>))}
    /\ ReturnsTree(Infix(<<"+">>,
                         Infix(<<"*">>, <<"8">>,
                               Block(<<"(">>,
                                     Infix(<<"+">>, <<"1">>,
                                           Infix(<<"*">>, <<"2">>, <<"3">>)),
                                     <<")">>)),
                         <<"9">>))

\* - 2 ** 3 ** 4 * 8 as Infix(*, Prefix(-, Infix(**, 2, Infix(**, 3, 4))), 8)
PrefixExampleTree ==
    Infix(<<"*">>,
          Prefix(<<"-">>, Infix(<<"*","*">>, <<"2">>,
                                Infix(<<"*","*">>, <<"3">>, <<"4">>))),
          <<"8">>)

\* C4: the operand of a prefix operator p takes the suffix operators that
\* follow it for as long as they are captured at the precedence of p
\* (precedence above p for left-associative infix and postfix-block rules,
\* at or above p for right-associative infix rules) and leaves the first
\* weaker operator and all that follows to the enclosing context;
\* - 2 ** 3 ** 4 * 8 gives Infix(*, Prefix(-, Infix(**, 2, Infix(**, 3, 4))), 8).
C4_PrefixOperand ==
    (Returns \/ pc = "raised") =>
        /\ \A c \in PrefixCases :
               source = c.text => pc # "raised" /\ ReturnsTree(c.tree)
        /\ source = PrefixExample =>
               pc # "raised" /\ ReturnsTree(PrefixExampleTree)

C4_Witness == source = PrefixExample /\ Returns /\ ReturnsTree(PrefixExampleTree)

\* 1 + 2 <nl> 1 + 2 + 3 as two Infix trees
StmtExampleTrees ==
    <<Infix(<<"+">>, <<"1">>, <<"2">>),
      Infix(<<"+">>, Infix(<<"+">>, <<"1">>, <<"2">>), <<"3">>)>>

\* parse_stmts returned trees and an exhausted cursor
ReturnsTrees(trees) ==
    pc = "done" /\ Shapes(exprs) = trees /\ ~nonzero(parser)

\* C5: for n expressions with a run of terminators between two of them, and
\* before the first and after the last one or not, parse_stmts raises
\* nothing and returns n items in the order of the text, the i-th the tree
\* of the i-th expression, and an exhausted cursor: a run of terminators
\* adds no item, whatever its length.
C5_StatementSequencing ==
    Parsed =>
        /\ \A c \in StmtCases : source = c.text => ReturnsTrees(c.trees)
        /\ source = StmtExample => ReturnsTrees(StmtExampleTrees)

\* <nl> 1 ; <nl> 1 + 2 ; <nl> gives the two items 1 and (1 + 2)
C5_Witness ==
    /\ source = <<"\n","1",";","\n","1"," ","+"," ","2",";","\n">>
    /\ ReturnsTrees(<<(<<"1">>), Infix(<<"+">>, <<"1">>, <<"2">>)>>)

\* C6: when parse_expr returns to a Block or a PostfixBlock rule with the
\* cursor exhausted, the closing token missing, the accept of the closing
\* token raises the SyntaxErr of the parser and nothing else.
C6_MissingCloseIsSyntaxErr ==
    [][ (/\ pc = "expr"
         /\ Top.at = "return"
         /\ Top.via.kind \in {"BlockRule", "PostfixBlockRule"}
         /\ ~nonzero(Top.parser))
        => (pc' = "raised" /\ fault' = "SyntaxErr") ]_vars

\* the current token of the cursor of frame f is an operator or a terminator
\* that has no prefix rule, or one outer does not capture
NoPrefixRule(f, c) ==
    /\ c.fault = "none"
    /\ c.ret # None
    /\ c.ret.name \in {"operator", "terminator"}
    /\ \/ c.ret.text \notin DOMAIN language.prefix
       \/ ~captured_by(language.prefix[c.ret.text], f.outer)

\* C9: parse_expr(outer) on a cursor whose current token has no prefix rule,
\* or one that outer does not capture, raises nothing and returns no item
\* and the cursor it was called on.
C9_NoPrefixRuleNoItem ==
    [][ (/\ pc = "expr"
         /\ Top.at = "start"
         /\ NoPrefixRule(Top, current_token(source, Top.self)))
        => (/\ pc' = "expr"
            /\ Len(stack') = Len(stack)
            /\ stack'[Len(stack)].at = "return"
            /\ stack'[Len(stack)].item = None
            /\ stack'[Len(stack)].parser = stack'[Len(stack)].self) ]_vars

----------------------------------------------------------------------------
(* FairSpec: a parse that has not returned or raised takes its next step *)

InitTexts == Start(Texts \cup {test})

FairSpec == InitTexts /\ [][Next]_vars /\ WF_vars(Next)

\* C8: Language.parse of a text returns or raises: the loop of parse_expr
\* ends when a pass leaves the position where it was, the loop of
\* parse_stmts when no terminator follows an expression, also on a text
\* with a character the pattern does not match, where the lexer gives the
\* error token at the same offset again and again.
C8_Terminates == <>Parsed

\* 1@ has raised: the error token was left over
C8_Witness ==
    /\ source = <<"1", "@">>
    /\ pc = "raised"
    /\ fault = "SyntaxErr"

----------------------------------------------------------------------------
(* SpecCursor: the calls on a ParserCursor c.  cursor is c as the calls    *)
(* so far left it, seen what c.pos() and c.current_token() returned when   *)
(* c was new.                                                              *)

\* what a new cursor c shows
Seen(c) == [pos |-> pos(c).ret, token |-> current_token(source, c).ret]

InitCursor ==
    /\ source \in Texts \ {<<>>}
    /\ pc = "cursor"
    /\ cursor = ParserCursor(TokenFilter(RegexLexer(StartPosition)))
    /\ seen = Seen(ParserCursor(TokenFilter(RegexLexer(StartPosition))))
    /\ exprs = <<>>
    /\ parser = None
    /\ stack = <<>>
    /\ fault = "none"
    /\ result = None
    /\ position = StartPosition

\* a call on c gave r: c is as the call left it
Called_on(r) ==
    /\ cursor' = r.self
    /\ fault' = r.fault
    /\ pc' = IF r.fault = "none" THEN "cursor" ELSE "raised"
    /\ UNCHANGED <<source, exprs, parser, stack, result, position, seen>>

\* c.current_token()
CurrentToken ==
    /\ pc = "cursor"
    /\ \E r \in {current_token(source, cursor)} : Called_on(r)

\* c.pos()
Pos ==
    /\ pc = "cursor"
    /\ \E r \in {pos(cursor)} : Called_on(r)

\* c.pop()
Pop ==
    /\ pc = "cursor"
    /\ \E r \in {pop(source, cursor)} : Called_on(r)

\* c.accept(e)
Accept ==
    /\ pc = "cursor"
    /\ \E e \in {<<ch>> : ch \in Chars} :
           \E r \in {accept(source, cursor, e)} : Called_on(r)

\* c = c.next(): the calls go on with the cursor returned, if it is true
Advance(r) ==
    IF r.fault # "none" THEN Called_on(r)
    ELSE /\ pc' = IF nonzero(r.ret) THEN "cursor" ELSE "done"
         /\ cursor' = r.ret
         /\ seen' = IF nonzero(r.ret) THEN Seen(r.ret) ELSE seen
         /\ UNCHANGED <<source, exprs, parser, stack, fault, result, position>>

NextCall ==
    /\ pc = "cursor"
    /\ \E r \in {next(source, cursor)} : Advance(r)

NextCursor ==
    \/ CurrentToken
    \/ Pos
    \/ Pop
    \/ Accept
    \/ NextCall

SpecCursor == InitCursor /\ [][NextCursor]_vars

\* C10: whatever calls were made on a cursor c, c.pos() and
\* c.current_token() return what they returned when c was new, also when
\* the lexer of c stands on whitespace and when only whitespace follows c.
C10_CursorImmutable ==
    pc \in {"cursor", "raised"} =>
        /\ pos(cursor) = Returned(seen.pos, cursor)
        /\ current_token(source, cursor).fault = "none"
        /\ current_token(source, cursor).ret = seen.token

----------------------------------------------------------------------------
(* SpecPos: Position.count_lines over texts of newline characters *)

PosChars == {"\r", "\n", "a"}

InitPos ==
    /\ source \in SeqsUpTo(PosChars, MaxPosLen)
    /\ position = StartPosition
    /\ pc = "pos"
    /\ exprs = <<>>
    /\ parser = None
    /\ stack = <<>>
    /\ fault = "none"
    /\ result = None
    /\ cursor = None
    /\ seen = None

CountLines ==
    /\ pc = "pos"
    /\ \E offset \in position.off .. Len(source) :
           position' = count_lines(position, source, offset)
    /\ UNCHANGED <<source, pc, exprs, parser, stack, fault, result, cursor, seen>>

NextPos == CountLines

SpecPos == InitPos /\ [][NextPos]_vars

\* The newline sequences of the text s[i:j]: a \r\n pair is one sequence,
\* a lone \r or a lone \n is one sequence.
RECURSIVE NewlineSequences(_, _, _)
NewlineSequences(s, i, j) ==
    IF i >= j THEN 0
    ELSE IF i + 1 < j /\ CharAt(s, i) = "\r" /\ CharAt(s, i + 1) = "\n"
         THEN 1 + NewlineSequences(s, i + 2, j)
    ELSE IF CharAt(s, i) \in {"\r", "\n"}
         THEN 1 + NewlineSequences(s, i + 1, j)
    ELSE NewlineSequences(s, i + 1, j)

\* the offset just after the last newline sequence of s[i:j], or dflt
RECURSIVE LastNewlineEnd(_, _, _, _)
LastNewlineEnd(s, i, j, dflt) ==
    IF j <= i THEN dflt
    ELSE IF CharAt(s, j - 1) \in {"\r", "\n"} THEN j
    ELSE LastNewlineEnd(s, i, j - 1, dflt)

\* C7: count_lines from a position p to an offset >= p.off adds to p.line the
\* number of newline sequences of source[p.off:offset], a \r\n pair counted
\* once; line_off is the offset just after the last of them (p.line_off if
\* there is none); col = offset - line_off + 1 and offset >= line_off.
C7_CountsEachSequenceOnce ==
    [][ /\ position'.line =
             position.line + NewlineSequences(source, position.off, position'.off)
        /\ position'.line_off =
             LastNewlineEnd(source, position.off, position'.off, position.line_off)
        /\ position'.col = position'.off - position'.line_off + 1
        /\ position'.off >= position'.line_off ]_vars

====
